---- MODULE Spec2Model ----
(***************************************************************************)
(* EC2 telemetry pipeline: the CloudWatch collector                        *)
(* (ec2_cloudwatch_metrics.py) writes one Parquet object per run to S3,    *)
(* the ETL (s3ToPostgresETL.py) reads the objects of the lookback window,  *)
(* aggregates them to daily rows and upserts them into ec2_metrics_latest. *)
(*                                                                         *)
(* float64 columns are modelled as exact rationals [n, d]; NaN is the      *)
(* rational with denominator 0.  A DataFrame is [cols, rows]: the set of   *)
(* its column names and the sequence of its rows (functions on cols).      *)
(***************************************************************************)
EXTENDS Integers, Sequences, FiniteSets, TLC

\* ------------------------------------------------------------------ bounds
\* Most raw rows one load is given under SpecLoad.
MaxRaw == 3
\* Most loads of one behaviour under SpecLoad.
MaxLoads == 2
\* Rows per upsert batch; the program's value (1000) is scaled down so that a
\* load of MaxRaw rows spans more than one batch.
BATCH == 2

\* ------------------------------------------------------------- float64 values
RECURSIVE GCD(_, _)
GCD(a, b) == IF b = 0 THEN a ELSE GCD(b, a % b)

Frac(n, d) == LET g == GCD(n, d) IN [n |-> n \div g, d |-> d \div g]
Num(v) == [n |-> v, d |-> 1]
NaN == [n |-> 0, d |-> 0]
IsNaN(x) == x.d = 0
Leq(x, y) == x.n * y.d <= y.n * x.d
Add(x, y) == Frac(x.n * y.d + y.n * x.d, x.d * y.d)

\* ------------------------------------------------------------------- time
\* An instant is [day, sec, us]: the day's index (day 0 is 2024-01-31), the
\* second of the day and the microsecond of the second.  NaT is the
\* unparsable timestamp; no instant equals it.
NaT == [day |-> 0 - 1, sec |-> 0 - 1, us |-> 0 - 1]
TimeLess(a, b) ==
    \/ a.day < b.day
    \/ a.day = b.day /\ a.sec < b.sec
    \/ a.day = b.day /\ a.sec = b.sec /\ a.us < b.us

\* The proleptic Gregorian calendar of datetime and pd.Timestamp.
IsLeap(y) == (y % 4 = 0 /\ y % 100 # 0) \/ y % 400 = 0
DaysInMonth(y, m) ==
    IF m = 2 THEN (IF IsLeap(y) THEN 29 ELSE 28)
    ELSE IF m \in {4, 6, 9, 11} THEN 30 ELSE 31
\* pd.Timestamp holds the years 1678 to 2261 whole.
ValidDate(y, m, d) ==
    /\ 1678 <= y /\ y <= 2261
    /\ 1 <= m /\ m <= 12
    /\ 1 <= d /\ d <= DaysInMonth(y, m)
RECURSIVE DaysBeforeMonth(_, _)
DaysBeforeMonth(y, m) ==
    IF m = 1 THEN 0 ELSE DaysBeforeMonth(y, m - 1) + DaysInMonth(y, m - 1)
DaysBeforeYear(y) ==
    365 * (y - 1) + (y - 1) \div 4 - (y - 1) \div 100 + (y - 1) \div 400
Ordinal(y, m, d) == DaysBeforeYear(y) + DaysBeforeMonth(y, m) + d
\* The day index of a calendar date.
DayIndex(y, m, d) == Ordinal(y, m, d) - Ordinal(2024, 1, 31)

\* ------------------------------------------------------------ string order
\* The strings of the model in Python's (code point) order.
StrOrder ==
    << "AWS/EC2", "Bytes", "CPU", "CPUUtilization", "CWAgent", "Memory",
       "Network", "NetworkIn", "None", "Percent", "day",
       "ec2-cloudwatch-metrics", "i-1", "i-2", "i-3", "i-4", "linux", "mem_total",
       "metrics_", "month", "region", "running", "t3.large", "t3.micro",
       "us-east-1a", "web", "web-v2", "year" >>
Rank(s) == CHOOSE i \in 1..Len(StrOrder) : StrOrder[i] = s

ColLess(c, x, y) ==
    IF c = "day_bucket" THEN x < y
    ELSE IF c = "timestamp" THEN TimeLess(x, y)
    ELSE Rank(x) < Rank(y)

RECURSIVE RowLess(_, _, _)
RowLess(a, b, cols) ==
    IF cols = <<>> THEN FALSE
    ELSE LET c == Head(cols) IN
         IF ColLess(c, a[c], b[c]) THEN TRUE
         ELSE IF ColLess(c, b[c], a[c]) THEN FALSE
         ELSE RowLess(a, b, Tail(cols))

RECURSIVE InsertRow(_, _, _)
InsertRow(x, s, cols) ==
    IF s = <<>> THEN <<x>>
    ELSE IF RowLess(x, Head(s), cols) THEN <<x>> \o s
    ELSE <<Head(s)>> \o InsertRow(x, Tail(s), cols)

\* DataFrame.sort_values on several columns (a stable sort).
RECURSIVE sort_values(_, _)
sort_values(rows, cols) ==
    IF rows = <<>> THEN <<>>
    ELSE InsertRow(rows[Len(rows)],
                   sort_values(SubSeq(rows, 1, Len(rows) - 1), cols), cols)

Range(s) == {s[i] : i \in 1..Len(s)}

RECURSIVE SetToSeq(_)
SetToSeq(S) ==
    IF S = {} THEN <<>>
    ELSE LET x == CHOOSE y \in S : TRUE IN <<x>> \o SetToSeq(S \ {x})

STAT_COLS == <<"stat_average", "stat_maximum", "stat_minimum", "stat_sum">>
EmptyFrame == [cols |-> {}, rows |-> <<>>]

\* ------------------------------------------------- transform_to_daily (ETL)
\* A value of the raw timestamp column is an instant (the datetime64 column the
\* collector writes), NaT, or a string: [iso, year, month, day, sec] has iso
\* TRUE for a string of the shape YYYY-MM-DDThh:mm:ssZ, with the numbers it
\* spells, and iso FALSE for any other string.
IsString(v) == "iso" \in DOMAIN v

\* Mutant of to_datetime: errors="coerce" is applied to the whole column, one
\* unparsable string turns every string into NaT.
ToDatetimeAllOrNothing(v, column) ==
    IF ~IsString(v) THEN v
    ELSE IF \E i \in 1..Len(column) :
                /\ IsString(column[i])
                /\ \/ ~column[i].iso
                   \/ ~ValidDate(column[i].year, column[i].month, column[i].day)
                   \/ column[i].sec \notin 0..86399
    THEN NaT
    ELSE [day |-> DayIndex(v.year, v.month, v.day), sec |-> v.sec, us |-> 0]

\* pd.to_datetime(column, utc=True, errors="coerce"), for the value v of the
\* column: an instant stays, a string that spells a date and time of the
\* calendar is parsed, every other string becomes NaT.
to_datetime(v, column) ==
    IF ~IsString(v) THEN v
    ELSE IF v.iso /\ ValidDate(v.year, v.month, v.day) /\ v.sec \in 0..86399
    THEN [day |-> DayIndex(v.year, v.month, v.day), sec |-> v.sec, us |-> 0]
    ELSE NaT

GROUP_KEYS ==
    << "instance_id", "instance_name", "instance_type",
       "metric_name", "day_bucket", "category", "unit", "az", "platform" >>

NotNa(vals) == SelectSeq(vals, LAMBDA v : ~IsNaN(v))

RECURSIVE SeqSum(_)
SeqSum(vals) == IF vals = <<>> THEN Num(0) ELSE Add(Head(vals), SeqSum(Tail(vals)))

AggMean(vals) ==
    LET xs == NotNa(vals) IN
    IF xs = <<>> THEN NaN ELSE Frac(SeqSum(xs).n, SeqSum(xs).d * Len(xs))
AggMax(vals) ==
    LET xs == NotNa(vals) IN
    IF xs = <<>> THEN NaN
    ELSE CHOOSE x \in Range(xs) : \A y \in Range(xs) : Leq(y, x)
AggMin(vals) ==
    LET xs == NotNa(vals) IN
    IF xs = <<>> THEN NaN
    ELSE CHOOSE x \in Range(xs) : \A y \in Range(xs) : Leq(x, y)
AggSum(vals) == SeqSum(NotNa(vals))

\* Mutant of Reduce: every statistic is reduced with the mean.
ReduceAllMean(col, vals) == AggMean(vals)

\* agg_map: the reducer of each statistic column.
Reduce(col, vals) ==
    CASE col = "stat_average" -> AggMean(vals)
      [] col = "stat_maximum" -> AggMax(vals)
      [] col = "stat_minimum" -> AggMin(vals)
      [] col = "stat_sum"     -> AggSum(vals)

Project(r, keys) == [k \in keys |-> r[k]]

transform_to_daily(df) ==
    LET stamps   == [i \in 1..Len(df.rows) |-> df.rows[i].timestamp]
        parsed   == [i \in 1..Len(df.rows) |->
                        [df.rows[i] EXCEPT !.timestamp = to_datetime(@, stamps)]]
        kept     == SelectSeq(parsed, LAMBDA r : r.timestamp # NaT)
        bucketed == [i \in 1..Len(kept) |->
                        kept[i] @@ [day_bucket |-> kept[i].timestamp.day]]
        cols     == df.cols \cup {"day_bucket"}
        keys     == SelectSeq(GROUP_KEYS, LAMBDA k : k \in cols)
        agg_map  == {c \in Range(STAT_COLS) : c \in df.cols}
        groups   == {Project(r, Range(keys)) : r \in Range(bucketed)}
        ordered  == sort_values(SetToSeq(groups), keys)
        members(g) == SelectSeq(bucketed, LAMBDA r : Project(r, Range(keys)) = g)
        column(g, c) == [i \in 1..Len(members(g)) |-> members(g)[i][c]]
        agg(g)   == g @@ [c \in agg_map |-> Reduce(c, column(g, c))]
                      @@ [c \in Range(STAT_COLS) \ agg_map |-> NaN]
    IN  [cols |-> Range(keys) \cup Range(STAT_COLS),
         rows |-> [i \in 1..Len(ordered) |-> agg(ordered[i])]]

\* ------------------------------------------------- upsert_to_postgres (ETL)
KEY_COLS == {"instance_id", "metric_name", "day_bucket"}
KeyOf(r) == <<r.instance_id, r.metric_name, r.day_bucket>>

\* Mutants of OnConflictDoUpdate: a plain INSERT, and ON CONFLICT DO NOTHING.
PlainInsert(rows, r, now) == rows \cup {r @@ [loaded_at |-> now]}
OnConflictDoNothing(rows, r, now) ==
    IF \E t \in rows : KeyOf(t) = KeyOf(r) THEN rows
    ELSE rows \cup {r @@ [loaded_at |-> now]}

\* INSERT one row ... ON CONFLICT (instance_id, metric_name, day_bucket)
\* DO UPDATE SET <every other column> = excluded.<column>, loaded_at = NOW().
OnConflictDoUpdate(rows, r, now) ==
    IF \E t \in rows : KeyOf(t) = KeyOf(r)
    THEN {IF KeyOf(t) = KeyOf(r)
          THEN [c \in DOMAIN t |->
                   IF c \in KEY_COLS THEN t[c]
                   ELSE IF c = "loaded_at" THEN now
                   ELSE r[c]]
          ELSE t : t \in rows}
    ELSE rows \cup {r @@ [loaded_at |-> now]}

\* One multi-row INSERT ... ON CONFLICT DO UPDATE statement.  PostgreSQL
\* refuses a statement that would touch one row twice ("ON CONFLICT DO UPDATE
\* command cannot affect row a second time"): ok is FALSE and nothing is kept.
RECURSIVE ExecUpsert(_, _, _, _)
ExecUpsert(rows, batch, touched, now) ==
    IF batch = <<>> THEN [ok |-> TRUE, rows |-> rows]
    ELSE IF KeyOf(Head(batch)) \in touched THEN [ok |-> FALSE, rows |-> rows]
    ELSE ExecUpsert(OnConflictDoUpdate(rows, Head(batch), now), Tail(batch),
                    touched \cup {KeyOf(Head(batch))}, now)

_upsert_batch(conn, batch, now) == ExecUpsert(conn, batch, {}, now)

Chunk(records, i) ==
    SubSeq(records, i + 1, IF i + BATCH < Len(records) THEN i + BATCH ELSE Len(records))

\* ------------------------------------------------------- collector: catalog
\* The entries of the catalog the model keeps: one metric without stat_sum,
\* one without stat_maximum and stat_minimum, and one memory metric with
\* stat_average alone.
EC2_STANDARD_METRICS ==
    << [metric |-> "CPUUtilization", stats |-> <<"Average", "Maximum", "Minimum">>,
        category |-> "CPU"],
       [metric |-> "NetworkIn", stats |-> <<"Sum", "Average">>,
        category |-> "Network"] >>
MEMORY_METRICS ==
    << [metric |-> "mem_total", stats |-> <<"Average">>, category |-> "Memory"] >>

\* The fetches of one instance, in the order fetch_instance_metrics makes them.
memory_namespace == "CWAgent"
Fetches ==
    [i \in 1..Len(EC2_STANDARD_METRICS) |->
        [namespace |-> "AWS/EC2", metric_def |-> EC2_STANDARD_METRICS[i]]]
    \o [i \in 1..Len(MEMORY_METRICS) |->
        [namespace |-> memory_namespace, metric_def |-> MEMORY_METRICS[i]]]

period_seconds == 60

\* s.startswith("p"), on the statistic names of the model.
StartsWithP(s) == s \in {"p95", "p99"}
\* f"stat_{stat.lower()}"
StatCol(stat) ==
    CASE stat = "Average" -> "stat_average"
      [] stat = "Maximum" -> "stat_maximum"
      [] stat = "Minimum" -> "stat_minimum"
      [] stat = "Sum"     -> "stat_sum"
      [] stat = "p95"     -> "stat_p95"
      [] stat = "p99"     -> "stat_p99"

Get(d, k, default) == IF k \in DOMAIN d THEN d[k] ELSE default

\* --------------------------------------------- fetch_metric_datapoints
\* Mutant of fetch_metric_datapoints: the try/except around the upstream call
\* is missing, so its exception leaves the function.
FetchNoCatch(namespace, instance_id, metric_def, response, period) ==
    IF response.error \/ \E i \in 1..Len(response.Datapoints) :
                            "Timestamp" \notin DOMAIN response.Datapoints[i]
    THEN [raised |-> TRUE, records |-> <<>>]
    ELSE [raised |-> FALSE,
          records |-> [i \in 1..Len(response.Datapoints) |->
              [namespace   |-> namespace,
               instance_id |-> instance_id,
               metric_name |-> metric_def.metric,
               category    |-> metric_def.category,
               timestamp   |-> response.Datapoints[i].Timestamp,
               unit        |-> Get(response.Datapoints[i], "Unit", "None"),
               period_sec  |-> period]
              @@ [c \in {StatCol(s) : s \in Range(metric_def.stats)} |->
                     Get(response.Datapoints[i],
                         CHOOSE s \in Range(metric_def.stats) : StatCol(s) = c, NaN)]]]

\* response is what get_metric_statistics does: [error |-> TRUE] when it
\* raises, [error |-> FALSE, Datapoints |-> <<...>>] otherwise.  The result is
\* [raised, records]: raised when an exception leaves the function.
fetch_metric_datapoints(namespace, instance_id, metric_def, response, period) ==
    LET stats    == metric_def.stats
        standard == SelectSeq(stats, LAMBDA s : ~StartsWithP(s))
        extended == SelectSeq(stats, LAMBDA s : StartsWithP(s))
        datapoints == response.Datapoints
        row(dp) ==
            [namespace   |-> namespace,
             instance_id |-> instance_id,
             metric_name |-> metric_def.metric,
             category    |-> metric_def.category,
             timestamp   |-> dp.Timestamp,
             unit        |-> Get(dp, "Unit", "None"),
             period_sec  |-> period]
            @@ [c \in {StatCol(s) : s \in Range(standard)} |->
                   LET s == CHOOSE s \in Range(standard) : StatCol(s) = c
                   IN  Get(dp, s, NaN)]
            @@ [c \in {StatCol(s) : s \in Range(extended)} |->
                   LET s == CHOOSE s \in Range(extended) : StatCol(s) = c
                   IN  Get(Get(dp, "ExtendedStatistics", <<>>), s, NaN)]
    IN  IF response.error THEN [raised |-> FALSE, records |-> <<>>]
        ELSE IF \E i \in 1..Len(datapoints) : "Timestamp" \notin DOMAIN datapoints[i]
        THEN [raised |-> TRUE, records |-> <<>>]
        ELSE [raised |-> FALSE,
              records |-> [i \in 1..Len(datapoints) |-> row(datapoints[i])]]

\* The get_metric_statistics requests one fetch_metric_datapoints call
\* dispatches: one request, whose Statistics are the plain statistics and
\* whose ExtendedStatistics are those whose name starts with "p" (an empty
\* list stands for the absent argument).
Requests(namespace, instance_id, metric_def, period) ==
    << [Namespace          |-> namespace,
        MetricName         |-> metric_def.metric,
        InstanceId         |-> instance_id,
        Period             |-> period,
        Statistics         |-> SelectSeq(metric_def.stats, LAMBDA s : ~StartsWithP(s)),
        ExtendedStatistics |-> SelectSeq(metric_def.stats, LAMBDA s : StartsWithP(s))] >>

\* The metadata fetch_instance_metrics merges into each record.
META_COLS ==
    {"instance_name", "instance_type", "state", "az",
     "private_ip", "public_ip", "launch_time", "platform"}
MergeMeta(records, instance_meta) ==
    [i \in 1..Len(records) |->
        [c \in META_COLS |-> instance_meta[c]] @@ records[i]]

\* ------------------------------------------------- restructure_dataframe
\* pd.DataFrame(records): the columns are the union of the records' keys and
\* a record without a key holds NaN there.
DataFrame(records) ==
    LET cols == UNION {DOMAIN records[i] : i \in 1..Len(records)}
    IN  [cols |-> cols,
         rows |-> [i \in 1..Len(records) |->
                     [c \in cols |-> Get(records[i], c, NaN)]]]

SORT_COLS == <<"instance_id", "category", "metric_name", "timestamp">>

\* Mutant of restructure_dataframe: the loop that adds the missing statistic
\* columns is left out.
RestructureNoEnsure(records, extracted_at) ==
    LET frame == DataFrame(records)
    IN  [cols |-> frame.cols \cup {"extracted_at"},
         rows |-> sort_values([i \in 1..Len(frame.rows) |->
                                  frame.rows[i] @@ [extracted_at |-> extracted_at]],
                              SORT_COLS)]

\* Mutant of restructure_dataframe: the rows are left in the order of the
\* records, sort_values is not called.
RestructureNoSort(records, extracted_at) ==
    LET frame   == DataFrame(records)
        missing == {c \in Range(STAT_COLS) : c \notin frame.cols}
    IN  [cols |-> frame.cols \cup missing \cup {"extracted_at"},
         rows |-> [i \in 1..Len(frame.rows) |->
                      frame.rows[i] @@ [c \in missing |-> NaN]
                                    @@ [extracted_at |-> extracted_at]]]

restructure_dataframe(records, extracted_at) ==
    LET df      == DataFrame(records)
        missing == {c \in Range(STAT_COLS) : c \notin df.cols}
        full    == [i \in 1..Len(df.rows) |->
                      df.rows[i] @@ [c \in missing |-> NaN]
                                 @@ [extracted_at |-> extracted_at]]
    IN  [cols |-> df.cols \cup missing \cup {"extracted_at"},
         rows |-> sort_values(full, SORT_COLS)]

\* ------------------------------------------------------------------ text
\* A text is a sequence of characters; the characters of the model in code
\* point order.
CharOrder == <<"+", "-", "0", "1", "2", "3", "4", "5", "6", "7", "8", "9", "x">>
CharRank(c) == CHOOSE i \in 1..Len(CharOrder) : CharOrder[i] = c
Digits == <<"0", "1", "2", "3", "4", "5", "6", "7", "8", "9">>
IsDigit(c) == c \in Range(Digits)
DigitValue(c) == (CHOOSE i \in 1..10 : Digits[i] = c) - 1

\* str(n) and f"{n:02d}" of a natural number.
RECURSIVE str(_)
str(n) == IF n < 10 THEN <<Digits[n + 1]>> ELSE str(n \div 10) \o <<Digits[(n % 10) + 1]>>
Pad02(n) == IF n < 10 THEN <<"0">> \o str(n) ELSE str(n)

\* int(text): the decimal number the text spells, with an optional sign;
\* ValueError (ok FALSE) for any other text.
RECURSIVE Decimal(_)
Decimal(text) ==
    IF text = <<>> THEN 0
    ELSE 10 * Decimal(SubSeq(text, 1, Len(text) - 1)) + DigitValue(text[Len(text)])
int(text) ==
    LET signed == text # <<>> /\ text[1] \in {"+", "-"}
        digits == IF signed THEN Tail(text) ELSE text
    IN  IF digits = <<>> \/ \E i \in 1..Len(digits) : ~IsDigit(digits[i])
        THEN [ok |-> FALSE, v |-> 0]
        ELSE [ok |-> TRUE,
              v  |-> IF signed /\ text[1] = "-" THEN 0 - Decimal(digits)
                     ELSE Decimal(digits)]

\* ----------------------------------------------------------- upload_to_s3
\* The calendar date of a day index: day 0 is 2024-01-31.
DateOf(day) ==
    IF day = 0 THEN [year |-> 2024, month |-> 1, day |-> 31]
    ELSE [year |-> 2024, month |-> 2, day |-> day]

\* An object key is the sequence of the segments "/" separates.  A segment
\* name=value has eq TRUE; the prefix and the file name have no "=".
Segment(name, value) == [name |-> name, eq |-> TRUE, value |-> value]
Plain(name, value) == [name |-> name, eq |-> FALSE, value |-> value]
\* run_time.strftime('%H%M%S')
strftime_HMS(run_time) ==
    Pad02(run_time.sec \div 3600) \o Pad02((run_time.sec % 3600) \div 60)
        \o Pad02(run_time.sec % 60)

\* Mutant of S3Key: the file name carries no time of the run.
S3KeyNoTime(prefix, run_time) ==
    << Plain(prefix, <<>>),
       Segment("year", str(DateOf(run_time.day).year)),
       Segment("month", Pad02(DateOf(run_time.day).month)),
       Segment("day", Pad02(DateOf(run_time.day).day)),
       Plain("metrics_", <<>>) >>

\* The object key: prefix/year=Y/month=MM/day=DD/metrics_HHMMSS.parquet.  The
\* file name keeps the hour, minute and second of run_time and drops its
\* microseconds.
S3Key(prefix, run_time) ==
    << Plain(prefix, <<>>),
       Segment("year", str(DateOf(run_time.day).year)),
       Segment("month", Pad02(DateOf(run_time.day).month)),
       Segment("day", Pad02(DateOf(run_time.day).day)),
       Plain("metrics_", strftime_HMS(run_time)) >>

s3_prefix == "ec2-cloudwatch-metrics"

\* ---------------------------------------------------------- extract_from_s3
lookback_days == 90

\* The partition date of a path: parts holds int(value) of every segment with
\* an "=" (ValueError when one is no number), a later segment of a name
\* replacing an earlier one; parts["year"], parts["month"] and parts["day"]
\* (KeyError when one is missing) make pd.Timestamp(year=, month=, day=,
\* tz="UTC"), midnight of the date (ValueError when the calendar has no such
\* date).  raised tells that an exception was raised.
FileDate(f) ==
    LET named(name) == SelectSeq(f, LAMBDA p : p.eq /\ p.name = name)
        has(name)   == named(name) # <<>>
        part(name)  == int(named(name)[Len(named(name))].value).v
        none        == [raised |-> TRUE, date |-> NaT]
    IN  IF \E i \in 1..Len(f) : f[i].eq /\ ~int(f[i].value).ok THEN none
        ELSE IF ~(has("year") /\ has("month") /\ has("day")) THEN none
        ELSE IF ~ValidDate(part("year"), part("month"), part("day")) THEN none
        ELSE [raised |-> FALSE,
              date   |-> [day |-> DayIndex(part("year"), part("month"), part("day")),
                          sec |-> 0, us |-> 0]]

\* Mutant of SelectFiles: a file whose partition date cannot be parsed is
\* left out.
SelectFilesFailClosed(all_files, lookback, t) ==
    IF lookback = 0 THEN all_files
    ELSE LET cutoff_date == [t EXCEPT !.day = @ - lookback]
         IN  SelectSeq(all_files, LAMBDA f :
                 /\ ~FileDate(f).raised
                 /\ ~TimeLess(FileDate(f).date, cutoff_date))

\* The files extract_from_s3 keeps: every file when lookback_days is 0 (falsy),
\* else those whose partition date is at or after now - lookback_days and
\* those whose partition date raised.
SelectFiles(all_files, lookback, t) ==
    IF lookback = 0 THEN all_files
    ELSE LET cutoff_date == [t EXCEPT !.day = @ - lookback]
         IN  SelectSeq(all_files, LAMBDA f :
                 \/ FileDate(f).raised
                 \/ ~TimeLess(FileDate(f).date, cutoff_date))

\* pd.concat(dfs, ignore_index=True)
RECURSIVE ConcatRows(_)
ConcatRows(dfs) ==
    IF dfs = <<>> THEN <<>> ELSE Head(dfs).rows \o ConcatRows(Tail(dfs))
concat(dfs) ==
    LET cols == UNION {dfs[i].cols : i \in 1..Len(dfs)}
        rows == ConcatRows(dfs)
    IN  [cols |-> cols,
         rows |-> [i \in 1..Len(rows) |-> [c \in cols |-> Get(rows[i], c, NaN)]]]

\* fs.glob lists the paths in lexicographic (code point) order; "/" sorts
\* before every other character of the model.
RECURSIVE TextLess(_, _)
TextLess(a, b) ==
    IF b = <<>> THEN FALSE
    ELSE IF a = <<>> THEN TRUE
    ELSE IF Head(a) # Head(b) THEN CharRank(Head(a)) < CharRank(Head(b))
    ELSE TextLess(Tail(a), Tail(b))
SegmentLess(p, q) ==
    IF p.name # q.name THEN Rank(p.name) < Rank(q.name)
    ELSE IF p.eq # q.eq THEN q.eq
    ELSE TextLess(p.value, q.value)
RECURSIVE KeyLess(_, _)
KeyLess(a, b) ==
    IF b = <<>> THEN FALSE
    ELSE IF a = <<>> THEN TRUE
    ELSE IF Head(a) # Head(b) THEN SegmentLess(Head(a), Head(b))
    ELSE KeyLess(Tail(a), Tail(b))
RECURSIVE glob(_)
glob(keys) ==
    IF keys = {} THEN <<>>
    ELSE LET k == CHOOSE x \in keys : \A y \in keys \ {x} : KeyLess(x, y)
         IN  <<k>> \o glob(keys \ {k})

\* ------------------------------------------------------------------- state
VARIABLES
    now,          \* the wall clock (UTC), read by both programs
    \* collector (ec2_cloudwatch_metrics.main)
    cpc,          \* "idle", "fetching", "upload"
    cres,         \* how the last collection run ended
    run_time,     \* main's run_time
    instances,    \* the discovered instances
    tasks,        \* per submitted future: [pos, records, status]
    gathered,     \* the futures as_completed has yielded
    all_records,  \* extract_all_ec2_metrics' result collector
    df,           \* the restructured frame
    s3,           \* object storage: the objects [key, body, extracted_at]
    puts,         \* every put_object so far: [key, run_time, body] (history)
    local_files,  \* the local backup files written
    \* loader (s3ToPostgresETL.main)
    lpc,          \* "idle", "transform", "upsert", "batch"
    lres,         \* how the last load run ended
    cfg,          \* load_config(): [lookback_days]
    all_files,    \* extract_from_s3: the paths fs.glob listed
    selected,     \* extract_from_s3: all_files after the lookback filter
    raw_df, daily_df,
    records,      \* upsert_to_postgres' records
    batch_i,      \* the loop variable i
    inserted,
    txn_now,      \* NOW() of the open transaction
    conn,         \* the rows the open transaction sees
    table,        \* the committed rows of ec2_metrics_latest
    \* history
    table_before, \* table when the last load run began
    attempted,    \* the batches of the last load that were executed
    failed_at,    \* the batch of the last load that failed, 0 if none
    loads,        \* load runs begun
    log           \* the runs that ended, in order: [op, res]

cvars == <<cpc, cres, run_time, instances, tasks, gathered, all_records, df>>
svars == <<s3, puts, local_files>>
evars == <<cfg, all_files, selected>>
lvars == <<lpc, lres, evars, raw_df, daily_df, records, batch_i, inserted, txn_now, conn,
           table, table_before, attempted, failed_at, loads>>
vars == <<now, cvars, svars, lvars, log>>

T0 == [day |-> 0, sec |-> 0, us |-> 0]

Init ==
    /\ now = T0
    /\ cpc = "idle" /\ cres = "none" /\ run_time = T0
    /\ instances = <<>> /\ tasks = <<>> /\ gathered = {}
    /\ all_records = <<>> /\ df = EmptyFrame
    /\ s3 = {} /\ puts = <<>> /\ local_files = {}
    /\ lpc = "idle" /\ lres = "none"
    /\ cfg = [lookback_days |-> lookback_days]
    /\ all_files = <<>> /\ selected = <<>>
    /\ raw_df = EmptyFrame /\ daily_df = EmptyFrame
    /\ records = <<>> /\ batch_i = 0 /\ inserted = 0
    /\ txn_now = T0 /\ conn = {} /\ table = {}
    /\ table_before = {} /\ attempted = {} /\ failed_at = 0 /\ loads = 0
    /\ log = <<>>

\* ------------------------------------------------ loader: s3ToPostgresETL.main
\* Steps 2 and 3 of main, on the frame step 1 produced.
Transform ==
    /\ lpc = "transform"
    /\ daily_df' = transform_to_daily(raw_df)
    /\ lpc' = "upsert"
    /\ UNCHANGED <<now, cvars, svars, evars, lres, raw_df, records, batch_i, inserted,
                   txn_now, conn, table, table_before, attempted, failed_at,
                   loads, log>>

\* upsert_to_postgres up to the first batch: an empty frame returns 0, else
\* engine.begin() opens the one transaction of the load.  times is the set of
\* instants the wall clock may show by then.
UpsertBegin(times) ==
    /\ lpc = "upsert"
    /\ IF daily_df.rows = <<>>
       THEN /\ lpc' = "idle" /\ lres' = "ok"
            /\ inserted' = 0
            /\ log' = Append(log, [op |-> "load", res |-> "ok"])
            /\ UNCHANGED <<now, records, batch_i, txn_now, conn>>
       ELSE /\ \E t \in times : now' = t /\ txn_now' = t
            /\ records' = daily_df.rows
            /\ batch_i' = 0 /\ inserted' = 0
            /\ conn' = table
            /\ lpc' = "batch"
            /\ UNCHANGED <<lres, log>>
    /\ UNCHANGED <<cvars, svars, evars, raw_df, daily_df, table, table_before,
                   attempted, failed_at, loads>>

\* One pass of the loop over the batches.  fault is a failure of the statement
\* the database reports for its own reasons (a lost connection, a rejected
\* value).  An exception leaves the with block: the transaction is rolled
\* back and the exception leaves upsert_to_postgres and main.
UpsertBatch ==
    /\ lpc = "batch"
    /\ batch_i < Len(records)
    /\ \E fault \in BOOLEAN :
        LET chunk == Chunk(records, batch_i)
            res   == _upsert_batch(conn, chunk, txn_now)
            k     == batch_i \div BATCH + 1
        IN  /\ attempted' = attempted \cup {k}
            /\ IF fault \/ ~res.ok
               THEN /\ conn' = table
                    /\ failed_at' = k
                    /\ lpc' = "idle" /\ lres' = "upsert_failed"
                    /\ log' = Append(log, [op |-> "load", res |-> "upsert_failed"])
                    /\ UNCHANGED <<batch_i, inserted>>
               ELSE /\ conn' = res.rows
                    /\ inserted' = inserted + Len(chunk)
                    /\ batch_i' = batch_i + BATCH
                    /\ UNCHANGED <<failed_at, lpc, lres, log>>
    /\ UNCHANGED <<now, cvars, svars, evars, raw_df, daily_df, records, txn_now, table,
                   table_before, loads>>

\* The loop is over: the with block commits, upsert_to_postgres returns
\* inserted, and verify_counts and preview_llm_summary only read.
UpsertCommit ==
    /\ lpc = "batch"
    /\ batch_i >= Len(records)
    /\ table' = conn
    /\ lpc' = "idle" /\ lres' = "ok"
    /\ log' = Append(log, [op |-> "load", res |-> "ok"])
    /\ UNCHANGED <<now, cvars, svars, evars, raw_df, daily_df, records, batch_i, inserted,
                   txn_now, conn, table_before, attempted, failed_at, loads>>

\* main's step 0: the DDL of ec2_metrics_schema.sql is executed and committed
\* (or skipped when the file is not there): the table and the views are
\* created if they do not exist, and the rows of an existing table stay.
apply_schema(rows) == rows

\* What every load run resets when it begins.
BeginLoad ==
    /\ loads' = loads + 1
    /\ table_before' = table
    /\ attempted' = {} /\ failed_at' = 0
    /\ daily_df' = EmptyFrame /\ records' = <<>>
    /\ batch_i' = 0 /\ inserted' = 0
    /\ conn' = table

\* ----------------------------------------------------- SpecLoad: any raw frame
\* The rows a raw frame is drawn from: CPUUtilization datapoints of i-1 at
\* three timestamps of two days, collected under two Name tags.
Dp(metric_def, t, v, unit) ==
    [Timestamp |-> t, Unit |-> unit] @@ [s \in Range(metric_def.stats) |-> Num(v)]

InstanceMeta(id, name, type) ==
    [instance_id |-> id, instance_name |-> name, instance_type |-> type,
     state |-> "running", az |-> "us-east-1a", private_ip |-> "10.0.0.1",
     public_ip |-> "", launch_time |-> "2024-01-01T00:00:00+00:00",
     platform |-> "linux"]

\* The datapoints of SpecLoad: (timestamp, value).
RawPoints ==
    {<<[day |-> 0, sec |-> 0, us |-> 0], 20>>,
     <<[day |-> 0, sec |-> 1, us |-> 0], 25>>,
     <<[day |-> 1, sec |-> 0, us |-> 0], 20>>}
\* One row of the schema restructure_dataframe emits, for a CPUUtilization
\* datapoint (Average, Maximum and Minimum requested, no Sum).
RawRow(name, t, v) ==
    [extracted_at |-> T0, timestamp |-> t,
     instance_id |-> "i-1", instance_name |-> name, instance_type |-> "t3.micro",
     state |-> "running", az |-> "us-east-1a", private_ip |-> "10.0.0.1",
     public_ip |-> "", platform |-> "linux",
     launch_time |-> "2024-01-01T00:00:00+00:00",
     namespace |-> "AWS/EC2", category |-> "CPU", metric_name |-> "CPUUtilization",
     unit |-> "Percent", period_sec |-> period_seconds,
     stat_average |-> Num(v), stat_maximum |-> Num(v), stat_minimum |-> Num(v),
     stat_sum |-> NaN]
RawChoices == {RawRow(name, p[1], p[2]) : name \in {"web", "web-v2"}, p \in RawPoints}
RAW_COLS == DOMAIN RawRow("web", T0, 20)
RawFrames ==
    {[cols |-> RAW_COLS, rows |-> sort_values(SetToSeq(S), SORT_COLS)] :
        S \in {S \in SUBSET RawChoices : 1 <= Cardinality(S) /\ Cardinality(S) <= MaxRaw}}

\* A day passes between the loads of SpecLoad.
NextDay(t) == {[t EXCEPT !.day = @ + 1]}

\* main's step 1, with any raw frame in place of the one read from S3.
LoadInput ==
    /\ lpc = "idle"
    /\ loads < MaxLoads
    /\ \E raw \in RawFrames : raw_df' = raw
    /\ BeginLoad
    /\ lpc' = "transform"
    /\ table' = apply_schema(table)
    /\ UNCHANGED <<now, cvars, svars, evars, lres, txn_now, log>>

NextLoad ==
    \/ LoadInput
    \/ Transform
    \/ UpsertBegin(NextDay(now))
    \/ UpsertBatch
    \/ UpsertCommit

SpecLoad == Init /\ [][NextLoad]_vars

\* ------------------------------------- SpecTransform: transform_to_daily alone
\* Most rows of a frame under SpecTransform.
MaxRows == 3
\* A raw row of i-1's CPUUtilization whose four statistics all hold x.
StatRow(t, x) ==
    [RawRow("web", T0, 0) EXCEPT !.timestamp = t,
        !.stat_average = x, !.stat_maximum = x, !.stat_minimum = x, !.stat_sum = x]
IsoString(y, m, d, sec) == [iso |-> TRUE, year |-> y, month |-> m, day |-> d, sec |-> sec]
\* "not-a-date"
JunkString == [iso |-> FALSE, year |-> 0, month |-> 0, day |-> 0, sec |-> 0]
\* The timestamps of SpecTransform: an instant and a string of 2024-01-31, a
\* string that is no date and the string of 2024-02-30.
Stamps == {T0, IsoString(2024, 1, 31, 1), JunkString, IsoString(2024, 2, 30, 0)}
TransformRows ==
    {StatRow(t, Num(v)) : t \in Stamps, v \in {10, 20, 30}} \cup {StatRow(T0, NaN)}
TransformFrames ==
    UNION {[1..n -> TransformRows] : n \in 1..MaxRows}

\* main has read raw_df and is about to transform it.
InitTransform ==
    /\ now = T0
    /\ cpc = "idle" /\ cres = "none" /\ run_time = T0
    /\ instances = <<>> /\ tasks = <<>> /\ gathered = {}
    /\ all_records = <<>> /\ df = EmptyFrame
    /\ s3 = {} /\ puts = <<>> /\ local_files = {}
    /\ lpc = "transform" /\ lres = "none"
    /\ cfg = [lookback_days |-> lookback_days]
    /\ all_files = <<>> /\ selected = <<>>
    /\ \E rows \in TransformFrames : raw_df = [cols |-> RAW_COLS, rows |-> rows]
    /\ daily_df = EmptyFrame
    /\ records = <<>> /\ batch_i = 0 /\ inserted = 0
    /\ txn_now = T0 /\ conn = {} /\ table = {}
    /\ table_before = {} /\ attempted = {} /\ failed_at = 0 /\ loads = 1
    /\ log = <<>>

NextTransform == Transform

SpecTransform == InitTransform /\ [][NextTransform]_vars

\* ------------------------------------------- collector: ec2_cloudwatch_metrics
\* The cap of the worker pool; the program's value (10) is scaled down so that
\* a run of MaxInstances instances has more futures than workers.
WORKER_CAP == 2
\* Mutant of max_workers: one worker per instance, without the cap.
MaxWorkersUncapped(insts) == Len(insts)
\* min(len(instances), 10)
max_workers(insts) == IF Len(insts) < WORKER_CAP THEN Len(insts) ELSE WORKER_CAP

\* The futures a worker thread is executing: a stalled call keeps its thread.
Running(ts) == {k \in 1..Len(ts) : ts[k].status \in {"running", "stalled"}}
Pending(ts) == {k \in 1..Len(ts) : ts[k].status = "pending"}
\* The worker that finished a future takes the next one of the queue (the
\* futures are queued in the order of submission).
TakeNext(ts) ==
    IF Pending(ts) = {} THEN ts
    ELSE LET k == CHOOSE k \in Pending(ts) : \A j \in Pending(ts) : k <= j
         IN  [ts EXCEPT ![k].status = "running"]

NumRuns(op) == Cardinality({i \in 1..Len(log) : log[i].op = op})

\* main up to the submission of the futures: run_time is read from the clock,
\* discover_ec2_instances raises, or returns no instance (main returns), or
\* returns the instances, and extract_all_ec2_metrics submits one
\* fetch_instance_metrics future per instance.  more bounds the runs of a
\* behaviour.
CollectStart(discoveries, times, more) ==
    /\ cpc = "idle" /\ lpc = "idle"
    /\ more
    /\ \E t \in times : \E d \in discoveries :
        /\ now' = t /\ run_time' = t
        /\ gathered' = {} /\ all_records' = <<>> /\ df' = EmptyFrame
        /\ IF d.error
           THEN /\ cres' = "discovery_failed"
                /\ log' = Append(log, [op |-> "collect", res |-> "discovery_failed"])
                /\ instances' = <<>> /\ tasks' = <<>>
                /\ UNCHANGED cpc
           ELSE IF d.instances = <<>>
           THEN /\ cres' = "no_instances"
                /\ log' = Append(log, [op |-> "collect", res |-> "no_instances"])
                /\ instances' = <<>> /\ tasks' = <<>>
                /\ UNCHANGED cpc
           ELSE /\ instances' = d.instances
                /\ tasks' = [k \in 1..Len(d.instances) |->
                                [pos |-> 0, got |-> <<>>, sent |-> <<>>,
                                 records |-> <<>>,
                                 status |-> IF k <= max_workers(d.instances)
                                            THEN "running" ELSE "pending"]]
                /\ cpc' = "fetching"
                /\ UNCHANGED <<cres, log>>
    /\ UNCHANGED <<svars, lvars>>

\* One fetch_metric_datapoints call of the future of instance k, the next of
\* fetch_instance_metrics' two loops over the catalog (fetches); after the
\* last one the metadata is merged into the records and the future is done.
\* An exception that leaves fetch_metric_datapoints ends the future with it.
\* got keeps the responses of the calls made and sent the requests (history).
TaskFetch(k, fetches, responses) ==
    /\ cpc = "fetching"
    /\ k \in 1..Len(tasks)
    /\ tasks[k].status = "running"
    /\ LET f == fetches[tasks[k].pos + 1] IN
       \E resp \in responses[tasks[k].pos + 1] :
        LET res  == fetch_metric_datapoints(f.namespace, instances[k].instance_id,
                                            f.metric_def, resp, period_seconds)
            req  == Requests(f.namespace, instances[k].instance_id,
                             f.metric_def, period_seconds)
            recs == tasks[k].records \o res.records
            last == tasks[k].pos + 1 = Len(fetches)
            step == [tasks EXCEPT ![k] =
                IF res.raised
                THEN [@ EXCEPT !.status = "raised", !.got = Append(@, resp),
                               !.sent = @ \o req]
                ELSE [pos     |-> @.pos + 1,
                      got     |-> Append(@.got, resp),
                      sent    |-> @.sent \o req,
                      records |-> IF last THEN MergeMeta(recs, instances[k]) ELSE recs,
                      status  |-> IF last THEN "done" ELSE "running"]]
        IN  tasks' = IF step[k].status = "running" THEN step ELSE TakeNext(step)
    /\ UNCHANGED <<now, cpc, cres, run_time, instances, gathered, all_records, df,
                   svars, lvars, log>>

\* The get_metric_statistics call the future of instance k is about to make
\* does not return: the thread waits in it.
TaskStall(k) ==
    /\ cpc = "fetching"
    /\ k \in 1..Len(tasks)
    /\ tasks[k].status = "running"
    /\ tasks' = [tasks EXCEPT ![k].status = "stalled"]
    /\ UNCHANGED <<now, cpc, cres, run_time, instances, gathered, all_records, df,
                   svars, lvars, log>>

\* The stalled call goes on.
TaskResume(k) ==
    /\ cpc = "fetching"
    /\ k \in 1..Len(tasks)
    /\ tasks[k].status = "stalled"
    /\ tasks' = [tasks EXCEPT ![k].status = "running"]
    /\ UNCHANGED <<now, cpc, cres, run_time, instances, gathered, all_records, df,
                   svars, lvars, log>>

\* Mutant of Gather: future.result() is called outside a try block, and the
\* exception of a future leaves extract_all_ec2_metrics and main.
GatherNoCatch(k) ==
    /\ cpc = "fetching"
    /\ k \in 1..Len(tasks)
    /\ k \notin gathered
    /\ tasks[k].status \in {"done", "raised"}
    /\ gathered' = gathered \cup {k}
    /\ IF tasks[k].status = "done"
       THEN /\ all_records' = all_records \o tasks[k].records
            /\ UNCHANGED <<cpc, cres, log>>
       ELSE /\ cpc' = "idle" /\ cres' = "task_raised"
            /\ log' = Append(log, [op |-> "collect", res |-> "task_raised"])
            /\ UNCHANGED all_records
    /\ UNCHANGED <<now, run_time, instances, tasks, df, svars, lvars>>

\* Mutant of Gather: the records a future had fetched before it raised are
\* collected too.
GatherKeepPartial(k) ==
    /\ cpc = "fetching"
    /\ k \in 1..Len(tasks)
    /\ k \notin gathered
    /\ tasks[k].status \in {"done", "raised"}
    /\ gathered' = gathered \cup {k}
    /\ all_records' = all_records \o MergeMeta(tasks[k].records, instances[k])
    /\ UNCHANGED <<now, cpc, cres, run_time, instances, tasks, df, svars, lvars, log>>

\* One pass of the as_completed loop: a finished future is yielded; its result
\* extends all_records, or its exception is logged.
Gather(k) ==
    /\ cpc = "fetching"
    /\ k \in 1..Len(tasks)
    /\ k \notin gathered
    /\ tasks[k].status \in {"done", "raised"}
    /\ gathered' = gathered \cup {k}
    /\ all_records' = IF tasks[k].status = "done"
                      THEN all_records \o tasks[k].records
                      ELSE all_records
    /\ UNCHANGED <<now, cpc, cres, run_time, instances, tasks, df, svars, lvars, log>>

\* Mutant of ExtractDone: main does not return on an empty frame and goes on
\* to the upload with it.
ExtractDoneNoReturn(times) ==
    /\ cpc = "fetching"
    /\ gathered = 1..Len(tasks)
    /\ IF all_records = <<>>
       THEN /\ df' = EmptyFrame
            /\ UNCHANGED now
       ELSE \E t \in times :
                /\ now' = t
                /\ df' = restructure_dataframe(all_records, t)
    /\ cpc' = "upload"
    /\ UNCHANGED <<cres, log, run_time, instances, tasks, gathered, all_records,
                   svars, lvars>>

\* The end of extract_all_ec2_metrics and main's steps 5 to 7: no record gives
\* an empty frame and main returns, else the frame is restructured.
ExtractDone(times) ==
    /\ cpc = "fetching"
    /\ gathered = 1..Len(tasks)
    /\ IF all_records = <<>>
       THEN /\ df' = EmptyFrame
            /\ cpc' = "idle" /\ cres' = "no_data"
            /\ log' = Append(log, [op |-> "collect", res |-> "no_data"])
            /\ UNCHANGED now
       ELSE /\ \E t \in times :
                /\ now' = t
                /\ df' = restructure_dataframe(all_records, t)
            /\ cpc' = "upload"
            /\ UNCHANGED <<cres, log>>
    /\ UNCHANGED <<run_time, instances, tasks, gathered, all_records, svars, lvars>>

\* upload_to_s3 and the local backup (main's steps 8 and 9): put_object
\* stores the object under the key of run_time, replacing an object the key
\* already names, and the local copy is written; or put_object raises and
\* the exception leaves main.
\* f"ec2_metrics_{run_time.strftime('%Y%m%d_%H%M%S')}.parquet"
LocalFile(t) ==
    [ymd |-> str(DateOf(t.day).year) \o Pad02(DateOf(t.day).month)
                \o Pad02(DateOf(t.day).day),
     hms |-> strftime_HMS(t)]

\* Mutant of Upload: the local copy is written before the upload.
UploadBackupFirst ==
    /\ cpc = "upload"
    /\ local_files' = local_files \cup {LocalFile(run_time)}
    /\ \E ok \in BOOLEAN :
        LET key == S3Key(s3_prefix, run_time) IN
        IF ok
        THEN /\ s3' = {o \in s3 : o.key # key}
                        \cup {[key |-> key, body |-> df, extracted_at |-> run_time]}
             /\ puts' = Append(puts, [key |-> key, run_time |-> run_time, body |-> df])
             /\ cres' = "ok"
             /\ log' = Append(log, [op |-> "collect", res |-> "ok"])
        ELSE /\ cres' = "upload_failed"
             /\ log' = Append(log, [op |-> "collect", res |-> "upload_failed"])
             /\ UNCHANGED <<s3, puts>>
    /\ cpc' = "idle"
    /\ UNCHANGED <<now, run_time, instances, tasks, gathered, all_records, df, lvars>>

Upload ==
    /\ cpc = "upload"
    /\ \E ok \in BOOLEAN :
        LET key == S3Key(s3_prefix, run_time) IN
        IF ok
        THEN /\ s3' = {o \in s3 : o.key # key}
                        \cup {[key |-> key, body |-> df, extracted_at |-> run_time]}
             /\ puts' = Append(puts, [key |-> key, run_time |-> run_time, body |-> df])
             /\ local_files' = local_files \cup {LocalFile(run_time)}
             /\ cres' = "ok"
             /\ log' = Append(log, [op |-> "collect", res |-> "ok"])
        ELSE /\ cres' = "upload_failed"
             /\ log' = Append(log, [op |-> "collect", res |-> "upload_failed"])
             /\ UNCHANGED <<s3, puts, local_files>>
    /\ cpc' = "idle"
    /\ UNCHANGED <<now, run_time, instances, tasks, gathered, all_records, df, lvars>>

\* ------------------------------------------------ loader: extract_from_s3
\* main's step 1: the objects are listed (RuntimeError when that fails,
\* ValueError when there is none), filtered to the lookback window and read
\* into one frame; pd.concat of no frame raises, and so does fs.open or
\* pd.read_parquet of a file that cannot be read (unread): the exception
\* leaves extract_from_s3 and main.
Extract(times, more) ==
    /\ lpc = "idle" /\ cpc = "idle"
    /\ more
    /\ BeginLoad
    /\ \E t \in times : \E listed \in BOOLEAN :
        LET files     == glob({o.key : o \in s3})
            filtered  == SelectFiles(files, cfg.lookback_days, t)
            body(f)   == (CHOOSE o \in s3 : o.key = f).body
            stop(res) == /\ lres' = res /\ lpc' = "idle"
                         /\ log' = Append(log, [op |-> "load", res |-> res])
                         /\ raw_df' = EmptyFrame
        IN  /\ now' = t
            /\ all_files' = IF listed THEN files ELSE <<>>
            /\ selected' = IF listed THEN filtered ELSE <<>>
            /\ IF ~listed THEN stop("list_failed")
               ELSE IF files = <<>> THEN stop("no_files")
               ELSE IF filtered = <<>> THEN stop("no_files_in_window")
               ELSE \E unread \in BOOLEAN :
                    IF unread THEN stop("read_failed")
                    ELSE /\ raw_df' = concat([i \in 1..Len(filtered) |->
                                                 body(filtered[i])])
                         /\ lpc' = "transform"
                         /\ UNCHANGED <<lres, log>>
    /\ table' = apply_schema(table)
    /\ UNCHANGED <<cvars, svars, cfg, txn_now>>

\* ------------------------------------------------------- environments
MaxDay == 1
Times == [day : 0..MaxDay, sec : {0, 1}, us : {0, 1}]
\* The clock does not run backwards.
Later(t) == {x \in Times : ~TimeLess(x, t)}
LaterSecond(t) == {x \in Later(t) : x.us = 0}
Same(t) == {t}

Ok(dps) == [error |-> FALSE, Datapoints |-> dps]
Failed == [error |-> TRUE, Datapoints |-> <<>>]
UnitOf(metric_def) == IF metric_def.metric = "CPUUtilization" THEN "Percent" ELSE "Bytes"
\* Two datapoints of a metric: every requested statistic at 20, and, a second
\* later, every requested statistic but the last at 25, without a Unit.
DpA(m) == Dp(m, T0, 20, UnitOf(m))
DpB(m) ==
    [Timestamp |-> [day |-> 0, sec |-> 1, us |-> 0]]
    @@ [s \in {m.stats[i] : i \in 1..(Len(m.stats) - 1)} |-> Num(25)]
\* A datapoint without its Timestamp.
DpBad(m) == [s \in Range(m.stats) |-> Num(20)]

Web1 == InstanceMeta("i-1", "web", "t3.micro")
Web2 == InstanceMeta("i-2", "web-v2", "t3.large")
Found(insts) == [error |-> FALSE, instances |-> insts]
DiscoveryFailed == [error |-> TRUE, instances |-> <<>>]

\* ------------------------------------------- SpecCollect: one collection run
CollectDiscoveries == {DiscoveryFailed, Found(<<>>), Found(<<Web1>>), Found(<<Web1, Web2>>)}
CollectResponses(m) == {Failed, Ok(<<>>), Ok(<<DpA(m)>>), Ok(<<DpA(m), DpB(m)>>), Ok(<<DpBad(m)>>)}

NextCollect ==
    \/ CollectStart(CollectDiscoveries, Same(now), log = <<>>)
    \/ \E k \in {1, 2} : TaskFetch(k, Fetches, [i \in DOMAIN Fetches |-> CollectResponses(Fetches[i].metric_def)])
    \/ \E k \in {1, 2} : Gather(k)
    \/ ExtractDone(Same(now))
    \/ Upload

SpecCollect == Init /\ [][NextCollect]_vars

\* ------------------------------------ SpecUpload: collection runs at any times
\* One instance whose CPUUtilization alone returns a datapoint.
MaxCollects == 2
UploadResponses(m) == IF m.metric = "CPUUtilization" THEN {Ok(<<DpA(m)>>)} ELSE {Failed}

NextUpload ==
    \/ CollectStart({Found(<<Web1>>)}, Later(now), NumRuns("collect") < MaxCollects)
    \/ TaskFetch(1, Fetches, [i \in DOMAIN Fetches |-> UploadResponses(Fetches[i].metric_def)])
    \/ Gather(1)
    \/ ExtractDone(Same(now))
    \/ Upload

SpecUpload == Init /\ [][NextUpload]_vars

\* ------------------------ SpecPool: a collection run with more futures than workers
\* Most instances discovery returns under SpecPool.
MaxInstances == 3
InstanceIds == <<"i-1", "i-2", "i-3", "i-4">>
PoolInstances(n) == [i \in 1..n |-> InstanceMeta(InstanceIds[i], "web", "t3.micro")]
PoolDiscoveries == {Found(PoolInstances(n)) : n \in 1..MaxInstances}
\* Every call returns one datapoint, or stalls.
PoolResponses(m) == {Ok(<<DpA(m)>>)}

NextPool ==
    \/ CollectStart(PoolDiscoveries, Same(now), log = <<>>)
    \/ \E k \in 1..MaxInstances :
           TaskFetch(k, Fetches, [i \in DOMAIN Fetches |-> PoolResponses(Fetches[i].metric_def)])
    \/ \E k \in 1..MaxInstances : TaskStall(k)
    \/ \E k \in 1..MaxInstances : TaskResume(k)
    \/ \E k \in 1..MaxInstances : Gather(k)
    \/ ExtractDone(Same(now))
    \/ Upload

SpecPool == Init /\ [][NextPool]_vars

\* --------------------- SpecFetch: a collection run on a catalog with percentiles
\* A catalog whose first metric requests a plain statistic and a percentile,
\* whose second requests a percentile alone and whose third a plain statistic
\* alone.
PercentileFetches ==
    << [namespace  |-> "AWS/EC2",
        metric_def |-> [metric |-> "CPUUtilization", stats |-> <<"Average", "p95">>,
                        category |-> "CPU"]],
       [namespace  |-> "AWS/EC2",
        metric_def |-> [metric |-> "NetworkIn", stats |-> <<"p99">>,
                        category |-> "Network"]],
       [namespace  |-> memory_namespace,
        metric_def |-> [metric |-> "mem_total", stats |-> <<"Average">>,
                        category |-> "Memory"]] >>
\* A datapoint with every requested statistic: the plain ones at 20, the
\* percentiles at 25 under ExtendedStatistics.
DpExt(m) ==
    [Timestamp |-> T0, Unit |-> UnitOf(m)]
    @@ [s \in {s \in Range(m.stats) : ~StartsWithP(s)} |-> Num(20)]
    @@ [e \in {"ExtendedStatistics"} |->
           [s \in {s \in Range(m.stats) : StartsWithP(s)} |-> Num(25)]]
FetchResponses(m) == {Failed, Ok(<<>>), Ok(<<DpExt(m)>>)}

NextFetch ==
    \/ CollectStart({Found(<<Web1>>), Found(<<Web1, Web2>>)}, Same(now), log = <<>>)
    \/ \E k \in {1, 2} :
           TaskFetch(k, PercentileFetches,
                     [i \in DOMAIN PercentileFetches |->
                         FetchResponses(PercentileFetches[i].metric_def)])
    \/ \E k \in {1, 2} : Gather(k)
    \/ ExtractDone(Same(now))
    \/ Upload

SpecFetch == Init /\ [][NextFetch]_vars

\* ---------------------------------- SpecExtract: a load run on any stored objects
\* Most objects under the prefix, and the greatest lookback_days.
MaxObjects == 2
MaxLookback == 2
\* prefix/<segments>/metrics_000000.parquet
PathOf(segments) ==
    <<Plain(s3_prefix, <<>>)>> \o segments \o <<Plain("metrics_", strftime_HMS(T0))>>
YMD(y, m, d) == <<Segment("year", y), Segment("month", m), Segment("day", d)>>
\* The paths of SpecExtract: the partitions of 2024-01-29, 2024-01-31 and
\* 2024-02-01, and the paths without a partition date: month=13, month=0x,
\* no day segment, and a region=x segment before the date of 2024-01-29.
DatedPaths ==
    {PathOf(YMD(str(2024), Pad02(1), Pad02(29))),
     PathOf(YMD(str(2024), Pad02(1), Pad02(31))),
     PathOf(YMD(str(2024), Pad02(2), Pad02(1)))}
UndatedPaths ==
    {PathOf(YMD(str(2024), str(13), Pad02(1))),
     PathOf(YMD(str(2024), <<"0", "x">>, Pad02(1))),
     PathOf(<<Segment("year", str(2024)), Segment("month", Pad02(1))>>),
     PathOf(<<Segment("region", <<"x">>)>> \o YMD(str(2024), Pad02(1), Pad02(29)))}
\* The object of a path: one row, of the path's place among the paths.
ObjectAt(path) ==
    [key  |-> path,
     body |-> [cols |-> RAW_COLS,
               rows |-> <<StatRow([T0 EXCEPT !.sec = Len(path)], Num(20))>>],
     extracted_at |-> T0]
StoredObjects ==
    {{ObjectAt(f) : f \in S} :
        S \in {S \in SUBSET (DatedPaths \cup UndatedPaths) : Cardinality(S) <= MaxObjects}}

InitExtract ==
    /\ now = T0
    /\ cpc = "idle" /\ cres = "none" /\ run_time = T0
    /\ instances = <<>> /\ tasks = <<>> /\ gathered = {}
    /\ all_records = <<>> /\ df = EmptyFrame
    /\ s3 \in StoredObjects /\ puts = <<>> /\ local_files = {}
    /\ lpc = "idle" /\ lres = "none"
    /\ cfg \in [lookback_days : 0..MaxLookback]
    /\ all_files = <<>> /\ selected = <<>>
    /\ raw_df = EmptyFrame /\ daily_df = EmptyFrame
    /\ records = <<>> /\ batch_i = 0 /\ inserted = 0
    /\ txn_now = T0 /\ conn = {} /\ table = {}
    /\ table_before = {} /\ attempted = {} /\ failed_at = 0 /\ loads = 0
    /\ log = <<>>

NextExtract ==
    \/ Extract(Later(now), loads = 0)
    \/ Transform
    \/ UpsertBegin(Same(now))
    \/ UpsertBatch
    \/ UpsertCommit

SpecExtract == InitExtract /\ [][NextExtract]_vars

\* ---------------------------------------- Spec: collection runs and load runs
\* The runs of the two programs, one at a time and in any order, on one
\* instance: CPUUtilization returns a datapoint, NetworkIn returns one or
\* fails, and the memory agent is not installed.
MaxRuns == 4
PipeResponses(m) ==
    IF m.metric = "CPUUtilization" THEN {Ok(<<DpA(m)>>)}
    ELSE IF m.metric = "NetworkIn" THEN {Failed, Ok(<<DpA(m)>>)}
    ELSE {Failed}

Next ==
    \/ CollectStart({Found(<<Web1>>)}, LaterSecond(now), Len(log) < MaxRuns)
    \/ TaskFetch(1, Fetches, [i \in DOMAIN Fetches |-> PipeResponses(Fetches[i].metric_def)])
    \/ Gather(1)
    \/ ExtractDone(Same(now))
    \/ Upload
    \/ Extract(Same(now), Len(log) < MaxRuns)
    \/ Transform
    \/ UpsertBegin(Same(now))
    \/ UpsertBatch
    \/ UpsertCommit

Spec == Init /\ [][Next]_vars

\* ------------------------------------------------------ claims on the loader
\* A load run has ended and its frames, records and history are still in place.
LoadEnded == lpc = "idle" /\ loads > 0
LoadCommitted == LoadEnded /\ lres = "ok"
RowsOf(rows, k) == {t \in rows : KeyOf(t) = k}
RecordKeys == {KeyOf(records[i]) : i \in 1..Len(records)}
\* The last of the load's records with key k: the one whose values stay.
LastRecord(k) ==
    records[CHOOSE i \in 1..Len(records) :
                /\ KeyOf(records[i]) = k
                /\ \A j \in (i + 1)..Len(records) : KeyOf(records[j]) # k]
NumBatches == (Len(records) + BATCH - 1) \div BATCH
BatchOf(i) == (i - 1) \div BATCH + 1

\* C3: after any sequence of upsert_to_postgres calls, ec2_metrics_latest holds
\* at most one row for each (instance_id, metric_name, day_bucket).
C3_OneRowPerKey ==
    \A r1 \in table : \A r2 \in table : KeyOf(r1) = KeyOf(r2) => r1 = r2

\* C3 witness: a committed load upserted a key the table already held, with
\* other values.
C3_Witness ==
    /\ LoadCommitted
    /\ \E b \in table_before : \E t \in table :
          KeyOf(b) = KeyOf(t) /\ b # t /\ KeyOf(t) \in RecordKeys

\* C4: a committed upsert of a key the table holds overwrites the row's four
\* statistic columns and sets loaded_at to the load's NOW(); a key the table
\* does not hold gets a new row; either way the key has exactly one row, and
\* the rows of the other keys are the rows the table held before.
C4_UpsertOverwritesOrInserts ==
    LoadCommitted =>
        /\ \A k \in RecordKeys :
              /\ Cardinality(RowsOf(table, k)) = 1
              /\ \A t \in RowsOf(table, k) :
                    /\ \A c \in Range(STAT_COLS) : t[c] = LastRecord(k)[c]
                    /\ t.loaded_at = txn_now
        /\ \A t \in table_before : KeyOf(t) \notin RecordKeys => t \in table
        /\ \A t \in table : KeyOf(t) \notin RecordKeys => t \in table_before

\* C4 witness: avg=20 was upserted by one load and avg=25 for the same key by
\* the next: one row, avg=25, loaded_at later than before.
C4_Witness ==
    /\ LoadCommitted
    /\ \E b \in table_before : \E t \in table :
          /\ KeyOf(b) = KeyOf(t)
          /\ b.stat_average = Num(20) /\ t.stat_average = Num(25)
          /\ TimeLess(b.loaded_at, t.loaded_at)
          /\ RowsOf(table, KeyOf(t)) = {t}

\* C5: when a batch of a load fails, every later batch of the load is still
\* attempted, and the load ends reporting a partial failure, not aborted.
C5_LaterBatchesStillAttempted ==
    (LoadEnded /\ failed_at > 0) =>
        /\ \A k \in failed_at..NumBatches : k \in attempted
        /\ lres # "upsert_failed"

\* C6: when batch k of a load fails, the rows of batches 1..k-1 of the load stay
\* committed in ec2_metrics_latest.
C6_EarlierBatchesCommitted ==
    (LoadEnded /\ failed_at > 1) =>
        \A i \in 1..Len(records) :
            BatchOf(i) < failed_at =>
                \E t \in table :
                    /\ KeyOf(t) = KeyOf(records[i])
                    /\ \A c \in Range(STAT_COLS) : t[c] = records[i][c]

\* The raw rows of the last load that transform_to_daily keeps, and their keys.
\* The instant a raw timestamp denotes, NaT when it denotes none.
Denotes(v) ==
    IF ~IsString(v) THEN v
    ELSE IF v.iso /\ ValidDate(v.year, v.month, v.day) /\ v.sec \in 0..86399
    THEN [day |-> DayIndex(v.year, v.month, v.day), sec |-> v.sec, us |-> 0]
    ELSE NaT
KeptRaw == SelectSeq(raw_df.rows, LAMBDA r : Denotes(r.timestamp) # NaT)
RawKey(r) == <<r.instance_id, r.metric_name, Denotes(r.timestamp).day>>
RawKeys == {RawKey(KeptRaw[i]) : i \in 1..Len(KeptRaw)}

\* C9: after a load, the row of ec2_metrics_latest for each (resource, metric,
\* day) with a raw row has stat_maximum >= every raw stat_maximum of that day
\* and stat_minimum <= every raw stat_minimum of that day.
C9_DailyMaxMinBoundRaw ==
    LoadCommitted =>
        \A i \in 1..Len(KeptRaw) :
            LET r == KeptRaw[i] IN
            \E t \in table :
                /\ KeyOf(t) = RawKey(r)
                /\ ~IsNaN(r.stat_maximum) =>
                      ~IsNaN(t.stat_maximum) /\ Leq(r.stat_maximum, t.stat_maximum)
                /\ ~IsNaN(r.stat_minimum) =>
                      ~IsNaN(t.stat_minimum) /\ Leq(t.stat_minimum, r.stat_minimum)

\* C10: transform_to_daily emits exactly one row per (instance_id, metric_name,
\* calendar day) of its input.
C10_OneDailyRowPerKey ==
    (loads > 0 /\ lpc # "transform") =>
        /\ Len(daily_df.rows) = Cardinality(RawKeys)
        /\ \A k \in RawKeys :
              Cardinality({i \in 1..Len(daily_df.rows) : KeyOf(daily_df.rows[i]) = k}) = 1

\* --------------------------------------------------- claims on the collector
\* extract_all_ec2_metrics has returned to main in the last collection run.
ExtractReturned ==
    \/ cpc = "upload"
    \/ cpc = "idle" /\ cres \in {"ok", "upload_failed", "no_data"}
Malformed(resp) ==
    \E i \in 1..Len(resp.Datapoints) : "Timestamp" \notin DOMAIN resp.Datapoints[i]
SomeFetchFailed ==
    \E k \in 1..Len(tasks) : \E p \in 1..Len(tasks[k].got) : tasks[k].got[p].error
\* The output frame holds datapoint dp of fetch p of instance k.
InOutput(k, p, dp) ==
    \E i \in 1..Len(df.rows) :
        /\ df.rows[i].instance_id = instances[k].instance_id
        /\ df.rows[i].metric_name = Fetches[p].metric_def.metric
        /\ df.rows[i].timestamp = dp.Timestamp
        /\ \A st \in Range(Fetches[p].metric_def.stats) :
              df.rows[i][StatCol(st)] = Get(dp, st, NaN)

\* C2: in a run where a fetch failed (the upstream call raised), the output of
\* extract_all_ec2_metrics holds every datapoint returned for every other
\* pair, and the extraction returns: every instance whose responses are
\* well-formed ran all its fetches, whatever failed among them.
C2_FailedFetchKeepsOtherPairs ==
    (ExtractReturned /\ SomeFetchFailed) =>
        \A k \in 1..Len(tasks) :
            (\A p \in 1..Len(tasks[k].got) : ~Malformed(tasks[k].got[p])) =>
                /\ tasks[k].status = "done"
                /\ Len(tasks[k].got) = Len(Fetches)
                /\ \A p \in 1..Len(Fetches) :
                      \A i \in 1..Len(tasks[k].got[p].Datapoints) :
                          InOutput(k, p, tasks[k].got[p].Datapoints[i])

\* C2 witness: the first fetch of i-1 failed, its second fetch and a fetch of
\* i-2 returned datapoints, and the frame was built.
C2_Witness ==
    /\ cpc = "upload"
    /\ Len(tasks) = 2
    /\ tasks[1].status = "done" /\ tasks[2].status = "done"
    /\ tasks[1].got[1].error
    /\ tasks[1].got[2].Datapoints # <<>>
    /\ tasks[2].got[1].Datapoints # <<>>
    /\ InOutput(1, 2, tasks[1].got[2].Datapoints[1])
    /\ InOutput(2, 1, tasks[2].got[1].Datapoints[1])

\* The statistics the catalog requests for a metric name.
RequestedCols(metric) ==
    LET f == CHOOSE f \in Range(Fetches) : f.metric_def.metric = metric
    IN  {StatCol(st) : st \in Range(f.metric_def.stats)}

\* C8: every row restructure_dataframe emits has the four statistic columns,
\* NaN where the metric's definition does not request the statistic.
C8_AllStatColumnsPresent ==
    \A i \in 1..Len(df.rows) :
        /\ Range(STAT_COLS) \subseteq DOMAIN df.rows[i]
        /\ Range(STAT_COLS) \subseteq df.cols
        /\ \A c \in Range(STAT_COLS) \ RequestedCols(df.rows[i].metric_name) :
              IsNaN(df.rows[i][c])

\* C8 witness: a batch in which only mem_total (Average alone) returned data.
C8_Witness ==
    /\ cpc = "upload"
    /\ df.rows # <<>>
    /\ \A i \in 1..Len(df.rows) :
          /\ df.rows[i].metric_name = "mem_total"
          /\ ~IsNaN(df.rows[i].stat_average)
          /\ IsNaN(df.rows[i].stat_maximum) /\ IsNaN(df.rows[i].stat_minimum)
          /\ IsNaN(df.rows[i].stat_sum)

SameSecond(a, b) == a.day = b.day /\ a.sec = b.sec

StatsOf(rows) == {[c \in KEY_COLS \cup Range(STAT_COLS) |-> t[c]] : t \in rows}
WithoutExtractedAt(frame) ==
    [i \in 1..Len(frame.rows) |->
        [c \in DOMAIN frame.rows[i] \ {"extracted_at"} |-> frame.rows[i][c]]]

\* C1: collect, upload, extract, transform and upsert, and then the same again
\* with the telemetry source returning the same datapoints, leaves
\* ec2_metrics_latest with the keys and the statistics it had after the first
\* round.
C1_PipelineTwiceSameWarehouse ==
    ( /\ Len(log) = 4
      /\ log[1] = [op |-> "collect", res |-> "ok"]
      /\ log[2] = [op |-> "load", res |-> "ok"]
      /\ log[3] = [op |-> "collect", res |-> "ok"]
      /\ log[4] = [op |-> "load", res |-> "ok"]
      /\ WithoutExtractedAt(puts[1].body) = WithoutExtractedAt(puts[2].body) )
    => StatsOf(table) = StatsOf(table_before)

\* ------------------------------------------------ claims on transform_to_daily
Transformed == lpc = "upsert"
\* The raw rows of the group of the daily row g: those with a timestamp that
\* denotes an instant, of g's day, and equal to g on the other group keys.
GroupRows(g) ==
    SelectSeq(raw_df.rows, LAMBDA r :
        /\ Denotes(r.timestamp) # NaT
        /\ Denotes(r.timestamp).day = g.day_bucket
        /\ \A k \in Range(GROUP_KEYS) \ {"day_bucket"} : r[k] = g[k])
\* The values of column c that the rows hold (NaN is no value).
Held(rows, c) ==
    LET present == SelectSeq(rows, LAMBDA r : ~IsNaN(r[c]))
    IN  [i \in 1..Len(present) |-> present[i][c]]
RECURSIVE Total(_)
Total(vals) == IF vals = <<>> THEN 0 ELSE Head(vals).n + Total(Tail(vals))

\* C11: each daily row holds, for its group's raw rows, the arithmetic mean of
\* stat_average, the greatest stat_maximum, the least stat_minimum and the sum
\* of stat_sum (the raw values are whole numbers); averages 10, 20 and 30
\* give the mean 20.
C11_ReducersPerStatistic ==
    Transformed =>
        \A i \in 1..Len(daily_df.rows) :
            LET g   == daily_df.rows[i]
                avg == Held(GroupRows(g), "stat_average")
                mx  == Held(GroupRows(g), "stat_maximum")
                mn  == Held(GroupRows(g), "stat_minimum")
                sm  == Held(GroupRows(g), "stat_sum")
            IN  /\ avg # <<>> =>
                      /\ g.stat_average.d > 0
                      /\ g.stat_average.n * Len(avg) = Total(avg) * g.stat_average.d
                /\ mx # <<>> =>
                      /\ g.stat_maximum \in Range(mx)
                      /\ \A v \in Range(mx) : v.n <= g.stat_maximum.n
                /\ mn # <<>> =>
                      /\ g.stat_minimum \in Range(mn)
                      /\ \A v \in Range(mn) : g.stat_minimum.n <= v.n
                /\ sm # <<>> => g.stat_sum = Num(Total(sm))
                /\ (Len(avg) = 3 /\ Range(avg) = {Num(10), Num(20), Num(30)})
                      => g.stat_average = Num(20)
C11_Witness ==
    /\ Transformed
    /\ Len(daily_df.rows) = 1
    /\ Len(raw_df.rows) = 3
    /\ Range(Held(raw_df.rows, "stat_average")) = {Num(10), Num(20), Num(30)}
    /\ \A i \in 1..3 : Denotes(raw_df.rows[i].timestamp) # NaT
    /\ daily_df.rows[1].stat_average = Num(20)
    /\ daily_df.rows[1].stat_maximum = Num(30)
    /\ daily_df.rows[1].stat_minimum = Num(10)
    /\ daily_df.rows[1].stat_sum = Num(60)

\* -------------------------------------------------- claims on extract_from_s3
\* The last extract_from_s3 listed the files.
Listed == all_files # <<>>
\* The values the segments name=... of a path spell.
ValuesOf(f, name) == {f[i].value : i \in {i \in 1..Len(f) : f[i].eq /\ f[i].name = name}}
IsNumber(text) == text # <<>> /\ \A i \in 1..Len(text) : IsDigit(text[i])
\* The path has exactly one year, month and day segment, each a number, and
\* they name a date of the calendar.
HasPartitionDate(f) ==
    /\ \A name \in {"year", "month", "day"} :
          /\ Cardinality(ValuesOf(f, name)) = 1
          /\ \A v \in ValuesOf(f, name) : IsNumber(v)
    /\ \E y \in ValuesOf(f, "year") : \E m \in ValuesOf(f, "month") :
       \E d \in ValuesOf(f, "day") : ValidDate(Decimal(y), Decimal(m), Decimal(d))
PartitionDay(f) ==
    LET y == CHOOSE v \in ValuesOf(f, "year") : TRUE
        m == CHOOSE v \in ValuesOf(f, "month") : TRUE
        d == CHOOSE v \in ValuesOf(f, "day") : TRUE
    IN  DayIndex(Decimal(y), Decimal(m), Decimal(d))
\* A year, month or day segment is missing or no number, or the three name no
\* date.
NoPartitionDate(f) ==
    \/ \E name \in {"year", "month", "day"} :
          \/ ValuesOf(f, name) = {}
          \/ \E v \in ValuesOf(f, name) : ~IsNumber(v)
    \/ ~HasPartitionDate(f)

\* C12: a listed file whose path gives no valid partition date is among the
\* selected files, whatever lookback_days is.
C12_UnparsablePathIncluded ==
    Listed =>
        \A i \in 1..Len(all_files) :
            NoPartitionDate(all_files[i]) => all_files[i] \in Range(selected)
C12_Witness ==
    /\ Listed
    /\ cfg.lookback_days > 0
    /\ Len(all_files) = 2 /\ Len(selected) = 1
    /\ \E i \in 1..4 : selected[1][i] = Segment("month", str(13))
    /\ lpc = "transform"

\* C13: for every lookback_days >= 0, no selected file with a partition date is
\* older than now - lookback_days: its date is not before the date
\* lookback_days days before today's.
C13_NoFileOlderThanLookback ==
    Listed =>
        \A i \in 1..Len(selected) :
            HasPartitionDate(selected[i]) =>
                PartitionDay(selected[i]) >= now.day - cfg.lookback_days

\* ------------------------------------------ claims on extract_all_ec2_metrics
\* Some call is stalled, no future is running, and as_completed has yielded
\* every finished future: only stalled calls are left.
OnlyStalledLeft ==
    /\ \E k \in 1..Len(tasks) : tasks[k].status = "stalled"
    /\ \A k \in 1..Len(tasks) : tasks[k].status # "running"
    /\ \A k \in 1..Len(tasks) : tasks[k].status \in {"done", "raised"} => k \in gathered
\* The pair (instance k, i-th metric of the catalog) was fetched.
Fetched(k, i) == i <= Len(tasks[k].got)

\* C14: a stalled fetch delays only its own (resource, metric) pair: when only
\* stalled calls are left, every other pair has been fetched, the other
\* metrics of the same resource included, and the batch has been returned.
C14_StallDelaysOnlyThatPair ==
    OnlyStalledLeft =>
        /\ \A k \in 1..Len(tasks) : \A i \in 1..Len(Fetches) :
              \/ Fetched(k, i)
              \/ tasks[k].status = "stalled" /\ i = tasks[k].pos + 1
        /\ cpc # "fetching"

\* C20: while extract_all_ec2_metrics runs, at most min(number of instances,
\* WORKER_CAP) futures are being executed.
C20_AtMostMaxWorkersRunning ==
    cpc = "fetching" =>
        /\ Cardinality(Running(tasks)) <= Len(instances)
        /\ Cardinality(Running(tasks)) <= WORKER_CAP
C20_Witness ==
    /\ cpc = "fetching"
    /\ Len(instances) > WORKER_CAP
    /\ Cardinality(Running(tasks)) = WORKER_CAP
    /\ tasks[1].status = "done"
    /\ tasks[Len(tasks)].status = "running"

\* ------------------------------------------------ claims on a collection run
RunEnded == cpc = "idle" /\ cres # "none"
\* Some get_metric_statistics call of the run raised, or returned a datapoint
\* fetch_metric_datapoints cannot read.
SomeTaskFailure ==
    \E k \in 1..Len(tasks) : \E p \in 1..Len(tasks[k].got) :
        tasks[k].got[p].error \/ Malformed(tasks[k].got[p])

\* C15: a run that discovery failed has fetched no metric and uploaded no
\* object; a run whose discovery succeeded is not ended by the failures of its
\* fetches: extract_all_ec2_metrics returns, and the run ends without data,
\* with the upload, or with the upload's failure.
C15_AbandonedOnlyByDiscovery ==
    /\ RunEnded =>
          cres \in {"discovery_failed", "no_instances", "no_data", "ok", "upload_failed"}
    /\ (RunEnded /\ cres = "discovery_failed") =>
          /\ tasks = <<>> /\ all_records = <<>>
          /\ puts = <<>> /\ s3 = {} /\ local_files = {}
    /\ (RunEnded /\ SomeTaskFailure) =>
          /\ cres \in {"no_data", "ok", "upload_failed"}
          /\ gathered = 1..Len(tasks)
C15_Witness ==
    /\ RunEnded /\ cres = "ok"
    /\ Len(tasks) = 2
    /\ \A p \in 1..Len(Fetches) : tasks[1].got[p].error
    /\ tasks[2].got[1].error
    /\ tasks[2].status = "done"
    /\ puts # <<>>

\* C17: a run whose upload failed has stored no object under its key and has
\* written no local backup file.
C17_FailedUploadLeavesNothing ==
    (RunEnded /\ cres = "upload_failed") =>
        /\ \A o \in s3 : o.key # S3Key(s3_prefix, run_time)
        /\ puts = <<>>
        /\ LocalFile(run_time) \notin local_files
C17_Witness ==
    /\ RunEnded /\ cres = "upload_failed"
    /\ df.rows # <<>>
    /\ s3 = {} /\ local_files = {}

\* ------------------------------------------- claims on unparsable timestamps
\* The raw rows whose timestamp denotes no instant.
Unparsable(rows) == SelectSeq(rows, LAMBDA r : Denotes(r.timestamp) = NaT)
\* The daily rows of the group the raw row r belongs to.
DailyOf(r) ==
    SelectSeq(daily_df.rows, LAMBDA g :
        /\ g.day_bucket = Denotes(r.timestamp).day
        /\ \A k \in Range(GROUP_KEYS) \ {"day_bucket"} : g[k] = r[k])

\* C16: the daily frame is made of the rows with a parsable timestamp alone:
\* every such row has the daily row of its group, every daily row has such a
\* row, and the daily stat_sum is the total of those rows, the rows with an
\* unparsable timestamp left out.
C16_UnparsableTimestampDropped ==
    Transformed =>
        /\ \A i \in 1..Len(raw_df.rows) :
              Denotes(raw_df.rows[i].timestamp) # NaT => Len(DailyOf(raw_df.rows[i])) = 1
        /\ \A i \in 1..Len(daily_df.rows) :
              /\ GroupRows(daily_df.rows[i]) # <<>>
              /\ daily_df.rows[i].stat_sum =
                    Num(Total(Held(GroupRows(daily_df.rows[i]), "stat_sum")))
        /\ Len(Unparsable(raw_df.rows)) = Len(raw_df.rows) => daily_df.rows = <<>>
C16_Witness ==
    /\ Transformed
    /\ Len(raw_df.rows) = 3
    /\ raw_df.rows[1].timestamp = JunkString /\ raw_df.rows[1].stat_sum = Num(30)
    /\ raw_df.rows[2].timestamp = IsoString(2024, 1, 31, 1)
    /\ raw_df.rows[2].stat_sum = Num(10)
    /\ raw_df.rows[3].timestamp = T0 /\ raw_df.rows[3].stat_sum = Num(20)
    /\ Len(daily_df.rows) = 1
    /\ daily_df.rows[1].stat_sum = Num(30)
    /\ daily_df.rows[1].stat_maximum = Num(20)

\* C18: a storage read error does not abort the load run: no load run ends
\* because listing the objects or reading a selected file failed.
C18_ReadErrorRecovered ==
    ~(lpc = "idle" /\ lres \in {"list_failed", "read_failed"})

\* ------------------------------------------- claims on fetch_metric_datapoints
PlainStats(m) == SelectSeq(m.stats, LAMBDA st : ~StartsWithP(st))
PercentileStats(m) == SelectSeq(m.stats, LAMBDA st : StartsWithP(st))
\* The requests the future of instance k sent for the metric m.
SentFor(k, m) == SelectSeq(tasks[k].sent, LAMBDA r : r.MetricName = m.metric)

\* C19: for a metric that requests plain statistics and percentiles, a fetch
\* sends two requests: one with the plain statistics alone and one with the
\* percentiles alone.
C19_PlainAndPercentileSplit ==
    \A k \in 1..Len(tasks) : \A p \in 1..Len(tasks[k].got) :
        LET m == PercentileFetches[p].metric_def IN
        (PlainStats(m) # <<>> /\ PercentileStats(m) # <<>>) =>
            /\ Len(SentFor(k, m)) = 2
            /\ \E i \in 1..Len(SentFor(k, m)) :
                  /\ SentFor(k, m)[i].Statistics = PlainStats(m)
                  /\ SentFor(k, m)[i].ExtendedStatistics = <<>>
            /\ \E i \in 1..Len(SentFor(k, m)) :
                  /\ SentFor(k, m)[i].Statistics = <<>>
                  /\ SentFor(k, m)[i].ExtendedStatistics = PercentileStats(m)

\* ------------------------------------------------ agent_backend/main.py
\* SELECT DISTINCT ON (instance_id) instance_id, instance_name, instance_type,
\* az, platform FROM ec2_metrics_latest ORDER BY instance_id, day_bucket DESC:
\* per instance one of its rows of the latest day.  The results the query
\* may give.
SELECTOR_COLS == {"instance_id", "instance_name", "instance_type", "az", "platform"}
LatestRows(rows, id) ==
    {r \in rows : /\ r.instance_id = id
                  /\ \A q \in rows : q.instance_id = id => q.day_bucket <= r.day_bucket}
fetch_available_instances(rows) ==
    LET ids == {r.instance_id : r \in rows}
    IN  {{Project(f[id], SELECTOR_COLS) : id \in ids} :
            f \in {f \in [ids -> rows] : \A id \in ids : f[id] \in LatestRows(rows, id)}}

\* The view v_ec2_llm_summary at window_days: one row per instance with rows
\* of the last window_days days, sample_days the days they cover.
v_ec2_llm_summary(rows, window_days, t) ==
    LET recent == {r \in rows : r.day_bucket >= t.day - window_days}
    IN  {[instance_id |-> id, window_days |-> window_days,
          sample_days |-> Cardinality({r.day_bucket : r \in {r \in recent : r.instance_id = id}})] :
            id \in {r.instance_id : r \in recent}}

\* SELECT ... FROM v_ec2_llm_summary WHERE window_days = :w
\* [AND instance_id = ANY(:ids)]: an empty instance_ids does not filter.
fetch_metrics(rows, window_days, instance_ids, t) ==
    {v \in v_ec2_llm_summary(rows, window_days, t) :
        instance_ids = {} \/ v.instance_id \in instance_ids}

\* Mutant of list_instances: the request also stamps the rows it read
\* (UPDATE ec2_metrics_latest SET loaded_at = NOW()).
ListInstancesTouch(more) ==
    /\ more
    /\ \E found \in fetch_available_instances(table) :
        log' = Append(log, [op |-> "instances", res |-> "200", body |-> found])
    /\ table' = {[r EXCEPT !.loaded_at = [now EXCEPT !.us = 1]] : r \in table}
    /\ UNCHANGED <<now, cvars, svars, lpc, lres, evars, raw_df, daily_df, records,
                   batch_i, inserted, txn_now, conn, table_before, attempted,
                   failed_at, loads>>

\* GET /instances: the instances of the table, or 500 when the query fails.
\* The backend has its own connections and sees the committed rows.
list_instances(more) ==
    /\ more
    /\ \E fault \in BOOLEAN : \E found \in fetch_available_instances(table) :
        log' = Append(log, IF fault
                           THEN [op |-> "instances", res |-> "500", body |-> {}]
                           ELSE [op |-> "instances", res |-> "200", body |-> found])
    /\ UNCHANGED <<now, cvars, svars, lvars>>

\* POST /analyse: the summary rows of the window and the instances asked
\* for; 500 when the query fails, 404 when there is no row, else the rows go
\* into the prompt and the generated report is streamed.
analyse(more, windows, selections) ==
    /\ more
    /\ \E fault \in BOOLEAN : \E w \in windows : \E ids \in selections :
        LET rows == fetch_metrics(table, w, ids, now)
        IN  log' = Append(log, IF fault
                               THEN [op |-> "analyse", res |-> "500", body |-> {}]
                               ELSE [op |-> "analyse",
                                     res |-> IF rows = {} THEN "404" ELSE "200",
                                     body |-> rows])
    /\ UNCHANGED <<now, cvars, svars, lvars>>

\* GET /preview-prompt: the prompt of the summary rows of every instance.
preview_prompt(more, windows) ==
    /\ more
    /\ \E w \in windows :
        log' = Append(log, [op |-> "preview", res |-> "200",
                            body |-> fetch_metrics(table, w, {}, now)])
    /\ UNCHANGED <<now, cvars, svars, lvars>>

\* ------------------------- SpecServe: a load run while the backend serves
\* Most requests the backend serves in a behaviour.
MaxServes == 1
\* The table an earlier load left: the daily row of 2024-01-31, loaded the
\* day before the run.
PriorTable ==
    _upsert_batch({}, transform_to_daily(ObjectAt(PathOf(YMD(str(2024), Pad02(1),
                                                             Pad02(31)))).body).rows,
                  [T0 EXCEPT !.day = -1]).rows
Served == Cardinality({i \in 1..Len(log) : log[i].op # "load"})

InitServe ==
    /\ now = T0
    /\ cpc = "idle" /\ cres = "none" /\ run_time = T0
    /\ instances = <<>> /\ tasks = <<>> /\ gathered = {}
    /\ all_records = <<>> /\ df = EmptyFrame
    /\ s3 \in {S \in StoredObjects : \A o \in S : o.key \in DatedPaths}
    /\ puts = <<>> /\ local_files = {}
    /\ lpc = "idle" /\ lres = "none"
    /\ cfg = [lookback_days |-> lookback_days]
    /\ all_files = <<>> /\ selected = <<>>
    /\ raw_df = EmptyFrame /\ daily_df = EmptyFrame
    /\ records = <<>> /\ batch_i = 0 /\ inserted = 0
    /\ txn_now = T0 /\ table \in {{}, PriorTable} /\ conn = table
    /\ table_before = table /\ attempted = {} /\ failed_at = 0 /\ loads = 0
    /\ log = <<>>

NextServe ==
    \/ Extract(Same(now), loads = 0)
    \/ Transform
    \/ UpsertBegin(Same(now))
    \/ UpsertBatch
    \/ UpsertCommit
    \/ list_instances(Served < MaxServes)
    \/ analyse(Served < MaxServes, {0, 30}, {{}, {"i-2"}})
    \/ preview_prompt(Served < MaxServes, {30})

SpecServe == InitServe /\ [][NextServe]_vars

\* ------------------- SpecKeys: collection runs, then a load run of their keys
\* Collection runs at any times write their objects; then one load run, under
\* any lookback_days of 0..MaxLookback, lists and selects them.
InitKeys ==
    /\ now = T0
    /\ cpc = "idle" /\ cres = "none" /\ run_time = T0
    /\ instances = <<>> /\ tasks = <<>> /\ gathered = {}
    /\ all_records = <<>> /\ df = EmptyFrame
    /\ s3 = {} /\ puts = <<>> /\ local_files = {}
    /\ lpc = "idle" /\ lres = "none"
    /\ cfg \in [lookback_days : 0..MaxLookback]
    /\ all_files = <<>> /\ selected = <<>>
    /\ raw_df = EmptyFrame /\ daily_df = EmptyFrame
    /\ records = <<>> /\ batch_i = 0 /\ inserted = 0
    /\ txn_now = T0 /\ conn = {} /\ table = {}
    /\ table_before = {} /\ attempted = {} /\ failed_at = 0 /\ loads = 0
    /\ log = <<>>

NextKeys ==
    \/ CollectStart({Found(<<Web1>>)}, Later(now),
                    loads = 0 /\ NumRuns("collect") < MaxCollects)
    \/ TaskFetch(1, Fetches, [i \in DOMAIN Fetches |-> UploadResponses(Fetches[i].metric_def)])
    \/ Gather(1)
    \/ ExtractDone(Same(now))
    \/ Upload
    \/ Extract(Later(now), loads = 0)
    \/ Transform
    \/ UpsertBegin(Same(now))
    \/ UpsertBatch
    \/ UpsertCommit

SpecKeys == InitKeys /\ [][NextKeys]_vars

\* ------------------------------------------------ claims, third part
\* The records of the finished futures in the order of the instances, the
\* order in which a sequential run would have collected them.
RECURSIVE InInstanceOrder(_)
InInstanceOrder(n) ==
    IF n = 0 THEN <<>>
    ELSE InInstanceOrder(n - 1)
         \o (IF tasks[n].status = "done" THEN tasks[n].records ELSE <<>>)
RECURSIVE RecordCount(_)
RecordCount(ks) ==
    IF ks = {} THEN 0
    ELSE LET k == CHOOSE k \in ks : TRUE
         IN  (IF tasks[k].status = "done" THEN Len(tasks[k].records) ELSE 0)
             + RecordCount(ks \ {k})

\* C21: the frame extract_all_ec2_metrics returns is the frame of the records
\* taken in instance order, whatever the order in which the futures
\* completed and were yielded, and its rows are sorted by instance_id,
\* category, metric_name, timestamp; all_records holds the records of the
\* futures the as_completed loop has yielded and of no other.
C21_CompletionOrderIrrelevant ==
    /\ cpc = "upload" =>
          /\ df = restructure_dataframe(InInstanceOrder(Len(tasks)), now)
          /\ \A i \in 1..Len(df.rows) : \A j \in 1..Len(df.rows) :
                i < j => ~RowLess(df.rows[j], df.rows[i], SORT_COLS)
    /\ cpc \in {"fetching", "upload"} =>
          /\ Len(all_records) = RecordCount(gathered)
          /\ \A i \in 1..Len(all_records) :
                \E k \in gathered :
                    /\ tasks[k].status = "done"
                    /\ \E p \in 1..Len(tasks[k].records) :
                          all_records[i] = tasks[k].records[p]

\* C21 witness: the future of the second instance was yielded first, and the
\* frame starts with the rows of the first instance.
C21_Witness ==
    /\ cpc = "upload"
    /\ Len(instances) = 2
    /\ tasks[1].status = "done" /\ tasks[2].status = "done"
    /\ tasks[1].records # <<>> /\ tasks[2].records # <<>>
    /\ all_records[1].instance_id = instances[2].instance_id
    /\ df.rows[1].instance_id = instances[1].instance_id

\* C22: no step of a load run and no request of the backend changes object
\* storage, and the rows of ec2_metrics_latest change only when
\* upsert_to_postgres commits the rows its batches wrote.
C22_LoadRunFrame ==
    [][/\ s3' = s3
       /\ table' # table =>
             /\ lpc = "batch" /\ batch_i >= Len(records)
             /\ table' = conn
             /\ lpc' = "idle" /\ lres' = "ok"]_vars

\* C22 witness: over a table an earlier load left, a load run read its files
\* and committed changed rows, and the backend served a request.
C22_Witness ==
    /\ lpc = "idle" /\ lres = "ok"
    /\ table_before # {} /\ table # table_before
    /\ selected # <<>>
    /\ Served > 0
    /\ {o.key : o \in s3} = Range(all_files)

\* C23: a daily row is null in every statistic column that is missing from the
\* raw frame or that holds no value on any raw row of the row's group.
C23_AbsentStatisticNull ==
    Transformed =>
        \A i \in 1..Len(daily_df.rows) : \A c \in Range(STAT_COLS) :
            (c \notin raw_df.cols \/ Held(GroupRows(daily_df.rows[i]), c) = <<>>)
                => IsNaN(daily_df.rows[i][c])

\* The columns restructure_dataframe puts first, in its order.
ordered_cols ==
    << "extracted_at", "timestamp",
       "instance_id", "instance_name", "instance_type", "state",
       "az", "private_ip", "public_ip", "platform", "launch_time",
       "namespace", "category", "metric_name", "unit", "period_sec",
       "stat_average", "stat_maximum", "stat_minimum", "stat_sum" >>

\* C24: a frame restructure_dataframe emits has the twenty columns of
\* ordered_cols (sixteen of metadata, four of statistics) and no other, on
\* the frame and on each of its rows.
C24_FixedColumnSet ==
    df.rows # <<>> =>
        /\ df.cols = Range(ordered_cols)
        /\ \A i \in 1..Len(df.rows) : DOMAIN df.rows[i] = Range(ordered_cols)

\* No call of the last run returned a datapoint.
NoDatapoints ==
    \A k \in 1..Len(tasks) : \A p \in 1..Len(tasks[k].got) :
        tasks[k].got[p].Datapoints = <<>>
Uploads == {i \in 1..Len(log) : log[i].op = "collect" /\ log[i].res = "ok"}

\* C25: every object was put by a run that ended well, one object a run, and
\* holds rows of datapoints the run retrieved; a run whose discovery found no
\* instance, and a run none of whose calls returned a datapoint, returns
\* without an exception and leaves no object and no local file.
C25_UploadOnlyWithData ==
    /\ Len(puts) = Cardinality(Uploads)
    /\ Cardinality(local_files) <= Cardinality(Uploads)
    /\ \A i \in 1..Len(puts) : puts[i].body.rows # <<>>
    /\ puts # <<>> => ~NoDatapoints
    /\ cres = "no_instances" =>
          cpc = "idle" /\ puts = <<>> /\ local_files = {} /\ s3 = {}
    /\ (cpc = "idle" /\ tasks # <<>> /\ NoDatapoints) =>
          cres = "no_data" /\ puts = <<>> /\ local_files = {} /\ s3 = {}

\* C25 witness: two instances were found, every call was made and none
\* returned a datapoint, and main returned.
C25_Witness ==
    /\ cpc = "idle" /\ cres = "no_data"
    /\ Len(tasks) = 2
    /\ \A k \in 1..2 : Len(tasks[k].got) = Len(Fetches)
    /\ NoDatapoints
    /\ puts = <<>> /\ local_files = {} /\ s3 = {}

\* Midnight (UTC) of the date of the instant t.
Midnight(t) == [day |-> t.day, sec |-> 0, us |-> 0]
\* The last load run listed the object the i-th upload wrote.
ListedPut(i) == Listed /\ lpc # "idle" /\ puts[i].key \in Range(all_files)

\* C26: the key upload_to_s3 built for the run time t parses, in
\* extract_from_s3, without an exception to midnight of t's date, and a load
\* run that lists the file selects it exactly when that midnight is at or
\* after now minus lookback_days.
C26_KeyRoundTrip ==
    \A i \in 1..Len(puts) :
        /\ ~FileDate(puts[i].key).raised
        /\ FileDate(puts[i].key).date = Midnight(puts[i].run_time)
        /\ ListedPut(i) =>
              (puts[i].key \in Range(selected)
                  <=> ~TimeLess(Midnight(puts[i].run_time),
                                [now EXCEPT !.day = @ - cfg.lookback_days]))

\* The frame holds a row of instance k.
HasRowOf(k) ==
    \E i \in 1..Len(df.rows) : df.rows[i].instance_id = instances[k].instance_id

\* C27: when the future of an instance raised, the frame
\* extract_all_ec2_metrics returns holds no row of that instance, whatever
\* the future had fetched before, and holds every datapoint returned for
\* every instance whose future did not raise.
C27_RaisedTaskDropsOnlyItsRows ==
    ExtractReturned =>
        \A k \in 1..Len(tasks) :
            tasks[k].status = "raised" =>
                /\ ~HasRowOf(k)
                /\ \A j \in 1..Len(tasks) :
                      tasks[j].status # "raised" =>
                          /\ tasks[j].status = "done"
                          /\ Len(tasks[j].got) = Len(Fetches)
                          /\ \A p \in 1..Len(Fetches) :
                                \A i \in 1..Len(tasks[j].got[p].Datapoints) :
                                    InOutput(j, p, tasks[j].got[p].Datapoints[i])

\* C27 witness: the future of i-1 fetched a datapoint and then raised on a
\* malformed one; the frame holds the datapoints of i-2 and no row of i-1.
C27_Witness ==
    /\ cpc = "upload"
    /\ Len(tasks) = 2
    /\ tasks[1].status = "raised" /\ tasks[1].records # <<>>
    /\ Malformed(tasks[1].got[2])
    /\ tasks[2].status = "done" /\ tasks[2].got[1].Datapoints # <<>>
    /\ ~HasRowOf(1) /\ HasRowOf(2)

\* A load run has begun and storage holds no object, or only objects whose
\* partition date is before the date lookback_days days before today's.
NoFileAvailable ==
    /\ loads > 0
    /\ \A o \in s3 :
          /\ HasPartitionDate(o.key)
          /\ PartitionDay(o.key) < now.day - cfg.lookback_days

\* C28: a load run with no file available ends in an error before
\* transform_to_daily and upsert_to_postgres are called, and leaves the rows
\* of ec2_metrics_latest as they were.
C28_NoFileEndsBeforeTransform ==
    NoFileAvailable =>
        /\ lpc = "idle"
        /\ lres \in {"list_failed", "no_files", "no_files_in_window"}
        /\ daily_df = EmptyFrame /\ attempted = {}
        /\ table = table_before

====
